---- MODULE Spec2Model ----
(***************************************************************************)
(* A model of the token-unlocks dashboard (src/main.py): the flattening of *)
(* the emission JSON (process_token_data), the weekly aggregation and the  *)
(* OTHER bucket (preprocess_data), the per-token load loop                 *)
(* (load_selected_data) and the page reruns of main.                       *)
(*                                                                         *)
(* Tables (pandas DataFrames) are sequences of records, in row order.      *)
(* value_usd and amount are integers; a percentage is the exact fraction   *)
(* num/den, with the float results of a division by zero (NaN, +inf, -inf) *)
(* kept as separate kinds.                                                 *)
(*                                                                         *)
(* The functions are memoised by st.cache_data(ttl=3600); the API of the   *)
(* model answers a request always the same, so that a cached and a fresh   *)
(* answer are equal and the cache is not a variable.                       *)
(***************************************************************************)
EXTENDS Integers, Sequences, FiniteSets, TLC

VARIABLES
    mode,             \* which entry point the behaviour exercises
    emission_data,    \* process_token_data: argument
    token_symbol,     \* process_token_data: argument
    token_data,       \* process_token_data: outcome
    data,             \* preprocess_data: argument
    weekly_totals,    \* preprocess_data: the local table after the relabelling
    final_data,       \* preprocess_data: outcome
    api_key,          \* main: the sidebar text input of the last rerun
    session,          \* st.session_state ('data' absent, None, or a table)
    had_table,        \* history: session held a table when the last rerun began
    pressed,          \* main: 'Generate Dashboard' returned True in the last rerun
    selected_tokens,  \* load_selected_data: argument
    load_result,      \* load_selected_data: outcome (in main: of the last rerun)
    start_date,       \* main: the value of the latest start date input (NoDate: none)
    end_date,         \* main: the value of the latest end date input (NoDate: none)
    filtered_data,    \* main: the filtered table of the last rerun
    shown,            \* main: the elements rendered in the last rerun
    warned,           \* main: the tokens whose 'Error processing' warning was rendered
    date_inputs,      \* main: the date inputs on the page, each by its widget id
    date_widgets,     \* the values Streamlit holds for the date inputs, by widget id
    halted,           \* main: where Streamlit stopped the last rerun ("none": nowhere)
    raised            \* main: the exception that ended the last rerun ("" if none)

vars == <<mode, emission_data, token_symbol, token_data, data, weekly_totals, final_data,
          api_key, session, had_table, pressed, selected_tokens, load_result,
          start_date, end_date, filtered_data, shown, warned, date_inputs,
          date_widgets, halted, raised>>

flattenVars == <<emission_data, token_symbol, token_data>>
preVars == <<data, weekly_totals, final_data>>
mainVars == <<api_key, session, had_table, pressed, selected_tokens, load_result,
              start_date, end_date, filtered_data, shown, warned, date_inputs,
          date_widgets, halted, raised>>

(***************************************************************************)
(* Bounds of the model.                                                    *)
(***************************************************************************)
MaxWeeks == 2       \* weeks in one emission list (flattening)
MaxAllocs == 2      \* allocations in one emission week (flattening)
MaxRows == 3        \* rows of a raw table handed to preprocess_data
MaxSelected == 2    \* tokens picked in the multiselect

(***************************************************************************)
(* Sequences.                                                              *)
(***************************************************************************)
RECURSIVE SeqsUpTo(_, _)
SeqsUpTo(S, n) ==
    IF n = 0 THEN {<<>>}
    ELSE LET shorter == SeqsUpTo(S, n - 1)
         IN  shorter \cup {Append(s, x) : s \in {t \in shorter : Len(t) = n - 1}, x \in S}

RECURSIVE FlattenSeqs(_)
FlattenSeqs(ss) == IF ss = <<>> THEN <<>> ELSE Head(ss) \o FlattenSeqs(Tail(ss))

Range(s) == {s[i] : i \in 1..Len(s)}

(***************************************************************************)
(* The calendar: datetime.strptime, strftime('%Y-W%V'), .date().           *)
(* A date text of the API is the tuple of the six numbers the format       *)
(* "%Y-%m-%dT%H:%M:%SZ" reads (a text that does not parse has a field out  *)
(* of range).                                                              *)
(***************************************************************************)
IsLeap(y) == (y % 4 = 0 /\ y % 100 # 0) \/ y % 400 = 0

DaysInMonth(y, m) ==
    IF m = 2 THEN (IF IsLeap(y) THEN 29 ELSE 28)
    ELSE IF m \in {4, 6, 9, 11} THEN 30 ELSE 31

RECURSIVE DaysBeforeMonth(_, _)
DaysBeforeMonth(y, m) ==
    IF m = 1 THEN 0 ELSE DaysBeforeMonth(y, m - 1) + DaysInMonth(y, m - 1)

DayOfYear(y, m, d) == DaysBeforeMonth(y, m) + d

\* date.toordinal(): 0001-01-01 is day 1, a Monday
Ordinal(y, m, d) ==
    LET p == y - 1
    IN  p * 365 + (p \div 4) - (p \div 100) + (p \div 400) + DayOfYear(y, m, d)

IsoWeekday(y, m, d) == ((Ordinal(y, m, d) - 1) % 7) + 1

YearP(y) == (y + (y \div 4) - (y \div 100) + (y \div 400)) % 7

WeeksInYear(y) == IF YearP(y) = 4 \/ YearP(y - 1) = 3 THEN 53 ELSE 52

\* %V: the ISO 8601 week number of the date
IsoWeek(y, m, d) ==
    LET w == (DayOfYear(y, m, d) - IsoWeekday(y, m, d) + 10) \div 7
    IN  IF w < 1 THEN WeeksInYear(y - 1)
        ELSE IF w > WeeksInYear(y) THEN 1
        ELSE w

\* the year is four digits and datetime takes the years 1 to 9999
StrptimeOk(text) ==
    /\ text[1] \in 1..9999
    /\ text[2] \in 1..12
    /\ text[3] \in 1..DaysInMonth(text[1], text[2])
    /\ text[4] \in 0..23
    /\ text[5] \in 0..59
    /\ text[6] \in 0..59

Strptime(text) ==
    [year |-> text[1], month |-> text[2], day |-> text[3],
     hour |-> text[4], minute |-> text[5], second |-> text[6]]

\* f"{start_date.strftime('%Y-W%V')}": the calendar year and the ISO week
WeekId(dt) == <<dt.year, IsoWeek(dt.year, dt.month, dt.day)>>

\* Timestamp.date() / Series.dt.date
DateOf(dt) == [year |-> dt.year, month |-> dt.month, day |-> dt.day]

\* dates compare by year, then month, then day
DateLeq(a, b) ==
    \/ a.year < b.year
    \/ a.year = b.year /\ a.month < b.month
    \/ a.year = b.year /\ a.month = b.month /\ a.day <= b.day

SecondOfDay(dt) == dt.hour * 3600 + dt.minute * 60 + dt.second

DatetimeLeq(a, b) ==
    \/ DateOf(a) # DateOf(b) /\ DateLeq(DateOf(a), DateOf(b))
    \/ DateOf(a) = DateOf(b) /\ SecondOfDay(a) <= SecondOfDay(b)

(***************************************************************************)
(* process_token_data.                                                     *)
(***************************************************************************)
MakeRow(sym, week_id, sd, ed, allocation) ==
    [token |-> sym, week |-> week_id, start_date |-> sd, end_date |-> ed,
     amount |-> allocation.unlockAmount, value_usd |-> allocation.unlockValue]

\* faulty variant of WeekRows: only the first allocation of a week gives a row
WeekRowsFirstOnly(week, sym) ==
    LET sd == Strptime(week.startDate)
        ed == Strptime(week.endDate)
    IN  IF week.allocations = <<>> THEN <<>>
        ELSE << MakeRow(sym, WeekId(sd), sd, ed, week.allocations[1]) >>

\* the rows of one emission week: one per allocation, in order
WeekRows(week, sym) ==
    LET sd == Strptime(week.startDate)
        ed == Strptime(week.endDate)
    IN  [i \in 1..Len(week.allocations) |->
            MakeRow(sym, WeekId(sd), sd, ed, week.allocations[i])]

WeekParses(week) == StrptimeOk(week.startDate) /\ StrptimeOk(week.endDate)

\* [tag |-> "ok", rows] or, when a date text does not parse, the ValueError
\* strptime raises on some period of the response
Raises(emission) == \E i \in 1..Len(emission) : ~WeekParses(emission[i])

ProcessTokenData(emission, sym) ==
    IF ~Raises(emission)
    THEN [tag |-> "ok",
          rows |-> FlattenSeqs([i \in 1..Len(emission) |-> WeekRows(emission[i], sym)])]
    ELSE [tag |-> "ValueError", rows |-> <<>>]

(***************************************************************************)
(* Ordering of the group keys: pandas sorts the groups of a groupby by key *)
(* (the week strings "%Y-W%V", then the token strings).                    *)
(***************************************************************************)
\* the labels of the model in ascending string order
TokenOrder == <<"APT", "ARB", "DYDX", "OP", "OTHER", "SUI", "TIA">>

Rank(sym) == CHOOSE i \in 1..Len(TokenOrder) : TokenOrder[i] = sym

\* the decimal digits of a positive number, as %Y writes a year (not padded)
RECURSIVE Digits(_)
Digits(n) == IF n < 10 THEN <<n>> ELSE Append(Digits(n \div 10), n % 10)

\* the order of two different years as strings followed by "-W": digit by
\* digit, and where one is a prefix of the other the "-" sorts before a digit
YearTextLess(y, z) ==
    LET dy == Digits(y)
        dz == Digits(z)
        differ == {i \in 1..Len(dy) : i <= Len(dz) /\ dy[i] # dz[i]}
    IN  IF Len(dy) = Len(dz) THEN y < z
        ELSE IF differ = {} THEN Len(dy) < Len(dz)
        ELSE LET first == CHOOSE i \in differ : \A j \in differ : i <= j
             IN  dy[first] < dz[first]

\* the order of the strings "%Y-W%V": the year as text, then the two-digit week
WeekLess(a, b) ==
    IF a[1] = b[1] THEN a[2] < b[2] ELSE YearTextLess(a[1], b[1])

KeyLess(a, b) == WeekLess(a[1], b[1]) \/ (a[1] = b[1] /\ Rank(a[2]) < Rank(b[2]))

RECURSIVE SortKeys(_)
SortKeys(S) ==
    IF S = {} THEN <<>>
    ELSE LET least == CHOOSE x \in S : \A y \in S : x = y \/ KeyLess(x, y)
         IN  <<least>> \o SortKeys(S \ {least})

RECURSIVE SumSeq(_)
SumSeq(s) == IF s = <<>> THEN 0 ELSE Head(s) + SumSeq(Tail(s))

RowsOfWeek(rows, w) == SelectSeq(rows, LAMBDA r : r.week = w)

RowsOfKey(rows, k) == SelectSeq(rows, LAMBDA r : r.week = k[1] /\ r.token = k[2])

ValueSum(rows) == SumSeq([i \in 1..Len(rows) |-> rows[i].value_usd])

AmountSum(rows) == SumSeq([i \in 1..Len(rows) |-> rows[i].amount])

Weeks(rows) == {rows[i].week : i \in 1..Len(rows)}

(***************************************************************************)
(* preprocess_data.                                                        *)
(***************************************************************************)
\* groupby(['week', 'token']).agg({'value_usd': 'sum', 'amount': 'sum'}).reset_index()
GroupByWeekToken(rows) ==
    LET keys == SortKeys({<<rows[i].week, rows[i].token>> : i \in 1..Len(rows)})
    IN  [i \in 1..Len(keys) |->
            [week |-> keys[i][1], token |-> keys[i][2],
             value_usd |-> ValueSum(RowsOfKey(rows, keys[i])),
             amount |-> AmountSum(RowsOfKey(rows, keys[i]))]]

\* week_sums, looked up by the merge on 'week'
TotalWeekValue(totals, w) == ValueSum(RowsOfWeek(totals, w))

\* (value_usd / total_week_value) * 100 in float arithmetic
Percentage(value, total) ==
    IF total # 0
    THEN [kind |-> "number",
          num |-> IF total > 0 THEN value * 100 ELSE 0 - value * 100,
          den |-> IF total > 0 THEN total ELSE 0 - total]
    ELSE [kind |-> IF value = 0 THEN "nan" ELSE IF value > 0 THEN "inf" ELSE "-inf",
          num |-> 0, den |-> 0]

WithPercentage(totals) ==
    [i \in 1..Len(totals) |->
        [week |-> totals[i].week, token |-> totals[i].token,
         value_usd |-> totals[i].value_usd, amount |-> totals[i].amount,
         total_week_value |-> TotalWeekValue(totals, totals[i].week),
         percentage |-> Percentage(totals[i].value_usd,
                                    TotalWeekValue(totals, totals[i].week))]]

Threshold == 5

\* faulty variant of BelowThreshold: `<= 5` for `< 5`
BelowThresholdOrEqual(pct) ==
    \/ pct.kind = "number" /\ pct.num <= Threshold * pct.den
    \/ pct.kind = "-inf"

\* x['percentage'] < 5: a comparison with NaN is False
BelowThreshold(pct) ==
    \/ pct.kind = "number" /\ pct.num < Threshold * pct.den
    \/ pct.kind = "-inf"

Relabel(totals) ==
    [i \in 1..Len(totals) |->
        [totals[i] EXCEPT !.token =
            IF BelowThreshold(totals[i].percentage) THEN "OTHER" ELSE @]]

\* data[['week', 'start_date', 'end_date']].drop_duplicates(): first occurrences
DatesData(rows) ==
    LET proj == [i \in 1..Len(rows) |->
                    [week |-> rows[i].week, start_date |-> rows[i].start_date,
                     end_date |-> rows[i].end_date]]
        first == {i \in 1..Len(proj) : \A j \in 1..(i - 1) : proj[j] # proj[i]}
        F[i \in 0..Len(proj)] ==
            IF i = 0 THEN <<>>
            ELSE IF i \in first THEN Append(F[i - 1], proj[i]) ELSE F[i - 1]
    IN  F[Len(proj)]

\* grouped_data.merge(dates_data, on='week'): an inner join, in the order of
\* the left rows, each with its matching right rows in their order
MergeOnWeek(grouped, dates) ==
    FlattenSeqs([i \in 1..Len(grouped) |->
        LET match == RowsOfWeek(dates, grouped[i].week)
        IN  [j \in 1..Len(match) |->
                [week |-> grouped[i].week, token |-> grouped[i].token,
                 value_usd |-> grouped[i].value_usd, amount |-> grouped[i].amount,
                 start_date |-> match[j].start_date,
                 end_date |-> match[j].end_date]]])

\* weekly_totals as it stands after the relabelling (lines 67-81)
WeeklyTotals(rows) == Relabel(WithPercentage(GroupByWeekToken(rows)))

\* a frame built from no rows has no columns: the groupby raises KeyError
PreprocessData(rows) ==
    IF rows = <<>> THEN [tag |-> "KeyError", rows |-> <<>>]
    ELSE [tag |-> "ok",
          rows |-> MergeOnWeek(GroupByWeekToken(WeeklyTotals(rows)), DatesData(rows))]

(***************************************************************************)
(* The unlocks API as the dashboard sees it: the token list, and for each  *)
(* token id the answer of /v2/emission.                                    *)
(***************************************************************************)
GoodKey == "valid-key"

BadKey == "wrong-key"

TokenListing ==
    << [symbol |-> "ARB", id |-> "arbitrum"],
       [symbol |-> "OP", id |-> "optimism"],
       [symbol |-> "SUI", id |-> "sui"],
       [symbol |-> "APT", id |-> "aptos"],
       [symbol |-> "TIA", id |-> "celestia"],
       [symbol |-> "DYDX", id |-> "dydx"] >>

TokenListResponse(key) ==
    IF key = GoodKey
    THEN [status_code |-> 200, data |-> TokenListing]
    ELSE [status_code |-> 401, data |-> <<>>]

Allocation(amount, value) == [unlockAmount |-> amount, unlockValue |-> value]

\* arbitrum: one period of two weeks; optimism: a period that starts inside
\* arbitrum's, at another time of day, and ends on the same day;
\* sui: no weeks; aptos: not served; celestia: a date that does not parse;
\* dydx: a week without allocations
EmissionResponse(token_id) ==
    CASE token_id = "arbitrum" ->
            [status_code |-> 200,
             data |-> << [startDate |-> <<2024, 1, 1, 0, 0, 0>>,
                          endDate |-> <<2024, 1, 15, 0, 0, 0>>,
                          allocations |-> <<Allocation(100, 19), Allocation(50, 1)>>] >>]
      [] token_id = "optimism" ->
            [status_code |-> 200,
             data |-> << [startDate |-> <<2024, 1, 8, 12, 0, 0>>,
                          endDate |-> <<2024, 1, 15, 12, 0, 0>>,
                          allocations |-> <<Allocation(7, 1)>>] >>]
      [] token_id = "sui" -> [status_code |-> 200, data |-> <<>>]
      [] token_id = "celestia" ->
            [status_code |-> 200,
             data |-> << [startDate |-> <<2024, 1, 1, 0, 0, 0>>,
                          endDate |-> <<2024, 1, 8, 0, 0, 0>>,
                          allocations |-> <<Allocation(5, 19)>>],
                         [startDate |-> <<2024, 2, 30, 0, 0, 0>>,
                          endDate |-> <<2024, 3, 7, 0, 0, 0>>,
                          allocations |-> <<Allocation(5, 19)>>] >>]
      [] token_id = "dydx" ->
            [status_code |-> 200,
             data |-> << [startDate |-> <<2024, 1, 1, 0, 0, 0>>,
                          endDate |-> <<2024, 1, 8, 0, 0, 0>>,
                          allocations |-> <<>>] >>]
      [] OTHER -> [status_code |-> 500, data |-> <<>>]

(***************************************************************************)
(* fetch_token_list, fetch_emission_data, load_selected_data.              *)
(***************************************************************************)
None == [tag |-> "None", rows |-> <<>>]

FetchTokenList(key) ==
    LET response == TokenListResponse(key)
    IN  IF response.status_code # 200
        THEN [tag |-> "None", list |-> <<>>]
        ELSE [tag |-> "data", list |-> response.data]

FetchEmissionData(token_id, key) ==
    LET response == EmissionResponse(token_id)
    IN  IF response.status_code # 200
        THEN [tag |-> "None", weeks |-> <<>>]
        ELSE [tag |-> "data", weeks |-> response.data]

\* {token["symbol"]: token["id"] for token in tokens}: the last id of a symbol
TokenMapOf(listing) ==
    [sym \in {listing[i].symbol : i \in 1..Len(listing)} |->
        LET last == CHOOSE i \in 1..Len(listing) :
                        /\ listing[i].symbol = sym
                        /\ \A j \in (i + 1)..Len(listing) : listing[j].symbol # sym
        IN  listing[last].id]

\* list(token_map.keys()): the symbols in the order of their first entry
TokenListOf(listing) ==
    LET first == {i \in 1..Len(listing) :
                    \A j \in 1..(i - 1) : listing[j].symbol # listing[i].symbol}
        F[i \in 0..Len(listing)] ==
            IF i = 0 THEN <<>>
            ELSE IF i \in first THEN Append(F[i - 1], listing[i].symbol) ELSE F[i - 1]
    IN  F[Len(listing)]

\* faulty variant of Truthy: `is not None`, which lets an empty list through
IsNotNone(emission) == emission.tag = "data"

\* `if emission_data:` : neither None nor an empty list
Truthy(emission) == emission.tag = "data" /\ emission.weeks # <<>>

\* the frames one token adds to all_data: none when the fetch gave nothing
\* or when the flattening raised (the except branch)
TokenFrames(key, sym, token_map) ==
    LET emission == FetchEmissionData(token_map[sym], key)
        token_frame == ProcessTokenData(emission.weeks, sym)
    IN  IF Truthy(emission) /\ token_frame.tag = "ok" THEN <<token_frame.rows>> ELSE <<>>

AllData(key, selected, token_map) ==
    FlattenSeqs([i \in 1..Len(selected) |-> TokenFrames(key, selected[i], token_map)])

\* pd.concat(all_data, ignore_index=True)
Concat(frames) == FlattenSeqs(frames)

LoadSelectedData(key, selected, token_map) ==
    LET all_data == AllData(key, selected, token_map)
    IN  IF all_data = <<>> THEN None ELSE PreprocessData(Concat(all_data))

(***************************************************************************)
(* main: the date range, the filter and what a rerun renders.              *)
(***************************************************************************)
NoDate == [year |-> 1, month |-> 1, day |-> 1]

\* a date input is the same widget from rerun to rerun while its label,
\* min_value, max_value and default are the same (lines 177-190): its id in
\* the model is the pair of min_value and max_value
NoWidget == <<>>

NoDateInputs == [start |-> NoWidget, end |-> NoWidget]

\* data['start_date'].min().date()
MinStartDate(rows) ==
    DateOf((CHOOSE r \in Range(rows) :
                \A q \in Range(rows) : DatetimeLeq(r.start_date, q.start_date)).start_date)

\* data['end_date'].max().date()
MaxEndDate(rows) ==
    DateOf((CHOOSE r \in Range(rows) :
                \A q \in Range(rows) : DatetimeLeq(q.end_date, r.end_date)).end_date)

\* faulty variant of RowInRange: the timestamps compared, not their dates
RowInRangeByDatetime(row, sd, ed) ==
    /\ DatetimeLeq([year |-> sd.year, month |-> sd.month, day |-> sd.day,
                    hour |-> 0, minute |-> 0, second |-> 0], row.start_date)
    /\ DatetimeLeq(row.end_date,
                   [year |-> ed.year, month |-> ed.month, day |-> ed.day,
                    hour |-> 0, minute |-> 0, second |-> 0])

\* (data['start_date'].dt.date >= start_date) & (data['end_date'].dt.date <= end_date)
RowInRange(row, sd, ed) ==
    /\ DateLeq(sd, DateOf(row.start_date))
    /\ DateLeq(DateOf(row.end_date), ed)

FilterByDate(rows, sd, ed) == SelectSeq(rows, LAMBDA r : RowInRange(r, sd, ed))

\* faulty variant of RenderFiltered: the check for an empty table left out
AlwaysDashboard(filtered) == {"metrics", "chart"}

\* lines 198-260: the warning and the return, or the metrics and the chart
RenderFiltered(filtered) ==
    IF filtered = <<>> THEN {"no_data_warning"} ELSE {"metrics", "chart"}

\* faulty variant of StoreResult: a None result leaves the old data in place
KeepTableOnNone(result, old) ==
    IF result.tag = "None" THEN old ELSE [state |-> "table", rows |-> result.rows]

\* st.session_state.data = load_selected_data(...)
StoreResult(result, old) ==
    IF result.tag = "None"
    THEN [state |-> "None", rows |-> <<>>]
    ELSE [state |-> "table", rows |-> result.rows]

(***************************************************************************)
(* The inputs of the bounded checks.                                       *)
(***************************************************************************)
Pending == [tag |-> "pending", rows |-> <<>>]

\* (startDate, endDate) texts. 1 January 2024 and 30 December 2024 both
\* format to the week id "2024-W01"; 8 January 2024 is of the next week.
SameWeekDateTexts ==
    { << <<2024, 1, 1, 0, 0, 0>>, <<2024, 1, 8, 0, 0, 0>> >>,
      << <<2024, 12, 30, 12, 0, 0>>, <<2025, 1, 6, 12, 0, 0>> >> }

GoodDateTexts ==
    SameWeekDateTexts \cup { << <<2024, 1, 8, 0, 0, 0>>, <<2024, 1, 15, 0, 0, 0>> >> }

\* 30 February, and the year 0000: strptime raises ValueError
BadDateTexts ==
    { << <<2024, 2, 30, 0, 0, 0>>, <<2024, 3, 7, 0, 0, 0>> >>,
      << <<2024, 1, 1, 0, 0, 0>>, <<0, 1, 8, 0, 0, 0>> >> }

FlattenAllocations ==
    { [unlockAmount |-> 10, unlockValue |-> 0],
      [unlockAmount |-> 30, unlockValue |-> 19] }

FlattenWeeks ==
    { [startDate |-> p[1], endDate |-> p[2], allocations |-> a] :
        p \in SameWeekDateTexts \cup BadDateTexts,
        a \in SeqsUpTo(FlattenAllocations, MaxAllocs) }

PreTokens == {"ARB", "OP", "SUI"}

PreValues == {0, 1, 19}

\* rows as process_token_data makes them
RawRows ==
    { MakeRow(sym, WeekId(Strptime(p[1])), Strptime(p[1]), Strptime(p[2]),
              [unlockAmount |-> 10, unlockValue |-> v]) :
        sym \in PreTokens, p \in GoodDateTexts, v \in PreValues }

(***************************************************************************)
(* Specification of process_token_data alone.                              *)
(***************************************************************************)
IdleFlatten ==
    /\ emission_data = <<>>
    /\ token_symbol = ""
    /\ token_data = Pending

IdlePre ==
    /\ data = <<>>
    /\ weekly_totals = <<>>
    /\ final_data = Pending

IdleMain ==
    /\ api_key = ""
    /\ session = [state |-> "absent", rows |-> <<>>]
    /\ had_table = FALSE
    /\ pressed = FALSE
    /\ selected_tokens = <<>>
    /\ load_result = Pending
    /\ start_date = NoDate
    /\ end_date = NoDate
    /\ filtered_data = <<>>
    /\ shown = {}
    /\ warned = <<>>
    /\ date_inputs = NoDateInputs
    /\ date_widgets = {}
    /\ halted = "none"
    /\ raised = ""

InitFlatten ==
    /\ mode = "process_token_data"
    /\ emission_data \in SeqsUpTo(FlattenWeeks, MaxWeeks)
    /\ token_symbol \in {"ARB", "OP"}
    /\ token_data = Pending
    /\ IdlePre
    /\ IdleMain

CallProcessTokenData ==
    /\ mode = "process_token_data"
    /\ token_data = Pending
    /\ token_data' = ProcessTokenData(emission_data, token_symbol)
    /\ UNCHANGED <<mode, emission_data, token_symbol, preVars, mainVars>>

SpecFlatten == InitFlatten /\ [][CallProcessTokenData]_vars

(***************************************************************************)
(* Specification of preprocess_data alone.                                 *)
(***************************************************************************)
InitPre ==
    /\ mode = "preprocess_data"
    /\ data \in SeqsUpTo(RawRows, MaxRows) \ {<<>>}
    /\ weekly_totals = <<>>
    /\ final_data = Pending
    /\ IdleFlatten
    /\ IdleMain

CallPreprocessData ==
    /\ mode = "preprocess_data"
    /\ final_data = Pending
    /\ weekly_totals' = WeeklyTotals(data)
    /\ final_data' = PreprocessData(data)
    /\ UNCHANGED <<mode, data, flattenVars, mainVars>>

SpecPre == InitPre /\ [][CallPreprocessData]_vars

Stopped == [tag |-> "stopped", rows |-> <<>>]

\* the flattening of the token raises inside the try block
TokenRaises(key, sym, token_map) ==
    LET emission == FetchEmissionData(token_map[sym], key)
    IN  Truthy(emission) /\ Raises(emission.weeks)

\* the tokens for which line 115 renders the warning
Warned(key, selected, token_map) ==
    SelectSeq(selected, LAMBDA sym : TokenRaises(key, sym, token_map))

\* What a call of load_selected_data can come to: it runs to its end (it
\* returns, or preprocess_data raises at line 129), or Streamlit stops the
\* script at an st.* call of the call (lines 107, 115, 118, 121-125), k
\* tokens of the selection done, after a widget event arrived while the call
\* waited (requests.get of line 32, sleep(0.3) of line 119). With each, the
\* tokens whose warning was rendered.
LoadOutcomes(key, selected, token_map) ==
    { [result |-> LoadSelectedData(key, selected, token_map),
       warned |-> Warned(key, selected, token_map)] }
    \cup { [result |-> Stopped,
            warned |-> Warned(key, SubSeq(selected, 1, k), token_map)] :
                k \in 0..Len(selected) }

(***************************************************************************)
(* Specification of load_selected_data alone: called with the valid key, a *)
(* selection and the token map of the listing.                             *)
(***************************************************************************)
\* what the multiselect can return: distinct symbols in the order picked
Selections(token_list) ==
    {sel \in SeqsUpTo(Range(token_list), MaxSelected) :
        \A i, j \in 1..Len(sel) : sel[i] = sel[j] => i = j}

InitLoad ==
    /\ mode = "load_selected_data"
    /\ IdleFlatten
    /\ IdlePre
    /\ api_key = GoodKey
    /\ selected_tokens \in (Selections(TokenListOf(TokenListing))
                                \cup {TokenListOf(TokenListing)}) \ {<<>>}
    /\ session = [state |-> "absent", rows |-> <<>>]
    /\ had_table = FALSE
    /\ pressed = FALSE
    /\ load_result = Pending
    /\ start_date = NoDate
    /\ end_date = NoDate
    /\ filtered_data = <<>>
    /\ shown = {}
    /\ warned = <<>>
    /\ date_inputs = NoDateInputs
    /\ date_widgets = {}
    /\ halted = "none"
    /\ raised = ""

CallLoadSelectedData ==
    /\ mode = "load_selected_data"
    /\ load_result = Pending
    /\ \E load \in LoadOutcomes(api_key, selected_tokens, TokenMapOf(TokenListing)) :
          /\ load_result' = load.result
          /\ warned' = load.warned
    /\ halted' = IF load_result'.tag = "stopped" THEN "load_selected_data" ELSE "none"
    /\ raised' = IF load_result'.tag \in {"ok", "None", "stopped"} THEN ""
                 ELSE load_result'.tag
    /\ UNCHANGED <<mode, flattenVars, preVars, api_key, session, had_table, pressed,
                   selected_tokens, start_date, end_date, filtered_data, shown,
                   date_inputs, date_widgets>>

SpecLoad == InitLoad /\ [][CallLoadSelectedData]_vars

(***************************************************************************)
(* Specification of the dashboard: every step is one rerun of main, with   *)
(* the widget values the user left (the key, the selection, the button,    *)
(* the two dates).                                                         *)
(***************************************************************************)
\* the days on which a period of the API's data starts or ends
CalendarDays ==
    UNION { UNION { {DateOf(Strptime(EmissionResponse(TokenListing[t].id).data[i].startDate)),
                     DateOf(Strptime(EmissionResponse(TokenListing[t].id).data[i].endDate))} :
                        i \in {j \in 1..Len(EmissionResponse(TokenListing[t].id).data) :
                                  WeekParses(EmissionResponse(TokenListing[t].id).data[j])} } :
                t \in 1..Len(TokenListing) }

\* the dates a date_input between min_value and max_value can return; the
\* model picks among the days on which a period starts or ends
DateChoices(id) ==
    {d \in CalendarDays : DateLeq(id[1], d) /\ DateLeq(d, id[2])}

\* the id of the date inputs rendered for a table (lines 177-190)
WidgetId(rows) == <<MinStartDate(rows), MaxEndDate(rows)>>

\* the value Streamlit holds for a date input (NoDate: none)
Held(widgets, input, id) ==
    IF \E w \in widgets : w.input = input /\ w.id = id
    THEN (CHOOSE w \in widgets : w.input = input /\ w.id = id).value
    ELSE NoDate

Put(widgets, input, id, value) ==
    {w \in widgets : ~(w.input = input /\ w.id = id)}
        \cup {[input |-> input, id |-> id, value |-> value]}

\* Where a rerun is stopped outside load_selected_data. Streamlit stops the
\* script at an st.* call when a widget event has arrived since the rerun
\* began:
\*   "sidebar"           lines 132-160 (and 21, 164): before the button
\*   "start_date_input"  lines 173-177: before the first date input
\*   "end_date_input"    line 185: between the two date inputs
\*   "filtered"          lines 199-216: before the warning or the metrics
\*   "chart"             lines 219-260: after the metrics
\* and "none" is a rerun that runs to its end.
BodyStops == {"start_date_input", "end_date_input", "filtered", "chart"}

Stops == {"none", "sidebar"} \cup BodyStops

\* the button is not pressed: load_selected_data is not called
NotCalled == [result |-> Pending, warned |-> <<>>]

\* the elements of lines 198-260 rendered before the stop
RenderedUntil(filtered, stop) ==
    CASE stop = "filtered" -> {}
      [] stop = "chart" -> RenderFiltered(filtered) \ {"chart"}
      [] OTHER -> RenderFiltered(filtered)

\* One rerun of main: the key of the text input, whether the (enabled)
\* button was clicked, the date input whose change caused the rerun
\* ("none", "start" or "end"), what the call of load_selected_data of line
\* 161 comes to for the selection, and the points where the rerun may be
\* stopped. A stopped rerun renders nothing more: the page keeps the other
\* elements of the last finished rerun, and Streamlit drops no widget value.
\* A rerun that runs to its end keeps the values of the widgets it rendered.
Main(key, click, date_event, load, stops) ==
    \E stop \in stops :
    \E pick \in (IF date_event = "none" THEN {NoDate}
                 ELSE DateChoices(date_inputs[date_event])
                        \ {Held(date_widgets, date_event, date_inputs[date_event])}) :
    \* the picked date is the value of its input when the rerun begins
    \E widgets \in {IF date_event = "none" THEN date_widgets
                    ELSE Put(date_widgets, date_event, date_inputs[date_event], pick)} :
        LET tokens == IF key # "" THEN FetchTokenList(key)
                      ELSE [tag |-> "None", list |-> <<>>]
            in_sidebar == stop = "sidebar"
            has_tokens == key # "" /\ tokens.tag = "data" /\ ~in_sidebar
            button == has_tokens /\ click
            \* stopped inside load_selected_data: line 161 is not reached
            in_load == button /\ load.result.tag = "stopped"
            in_body == stop \in BodyStops
            start_unreached == IF date_event = "start" THEN pick ELSE start_date
            end_unreached == IF date_event = "end" THEN pick ELSE end_date
        IN  /\ mode = "main"
            /\ in_load => stop = "none"
            /\ api_key' = key
            /\ had_table' = (session.state = "table")
            /\ pressed' = button
            /\ halted' = IF in_load THEN "load_selected_data" ELSE stop
            /\ load_result' = IF button THEN load.result ELSE Pending
            /\ warned' = IF button THEN load.warned ELSE <<>>
            /\ LET sidebar ==
                     (IF key # "" /\ tokens.tag = "None" THEN {"invalid_key_error"} ELSE {})
                     \cup (IF load_result'.tag = "None" THEN {"no_data_error"} ELSE {})
               IN  IF in_sidebar \/ in_load
                   THEN \* nothing rendered, nothing stored
                        /\ raised' = ""
                        /\ shown' = {}
                        /\ session' = session
                        /\ filtered_data' = <<>>
                        /\ date_inputs' = date_inputs
                        /\ date_widgets' = widgets
                        /\ start_date' = start_unreached
                        /\ end_date' = end_unreached
                   ELSE IF load_result'.tag \notin {"pending", "ok", "None"}
                   THEN \* the exception leaves load_selected_data and ends the
                        \* rerun: the page keeps the sidebar and the traceback
                        /\ ~in_body
                        /\ raised' = load_result'.tag
                        /\ shown' = sidebar
                        /\ session' = session
                        /\ filtered_data' = <<>>
                        /\ date_inputs' = NoDateInputs
                        /\ date_widgets' = widgets
                        /\ start_date' = start_unreached
                        /\ end_date' = end_unreached
                   ELSE /\ session' = IF button THEN StoreResult(load_result', session)
                                      ELSE session
                        /\ raised' = ""
                        /\ IF key = "" \/ session'.state # "table"
                           THEN \* lines 163-168: the rerun returns before the body
                                /\ ~in_body
                                /\ shown' = IF key = "" THEN {"info"} ELSE sidebar
                                /\ start_date' = NoDate
                                /\ end_date' = NoDate
                                /\ filtered_data' = <<>>
                                /\ date_inputs' = NoDateInputs
                                /\ date_widgets' = {}
                           ELSE \E id \in {WidgetId(session'.rows)} :
                                \* st.date_input: the held value, or the default
                                \E sd \in {IF Held(widgets, "start", id) # NoDate
                                           THEN Held(widgets, "start", id)
                                           ELSE id[1]} :
                                \E ed \in {IF Held(widgets, "end", id) # NoDate
                                           THEN Held(widgets, "end", id)
                                           ELSE id[2]} :
                                LET rows == session'.rows
                                    start_reached == stop # "start_date_input"
                                    end_reached == stop \notin {"start_date_input",
                                                                "end_date_input"}
                                    with_start == IF start_reached
                                                  THEN Put(widgets, "start", id, sd)
                                                  ELSE widgets
                                    with_both == IF end_reached
                                                 THEN Put(with_start, "end", id, ed)
                                                 ELSE with_start
                                IN  /\ start_date' = IF start_reached THEN sd
                                                     ELSE start_unreached
                                    /\ end_date' = IF end_reached THEN ed ELSE end_unreached
                                    /\ date_inputs' =
                                          [start |-> IF start_reached THEN id
                                                     ELSE date_inputs.start,
                                           end |-> IF end_reached THEN id
                                                   ELSE date_inputs.end]
                                    /\ date_widgets' =
                                          IF stop = "none"
                                          THEN {[input |-> "start", id |-> id, value |-> sd],
                                                [input |-> "end", id |-> id, value |-> ed]}
                                          ELSE with_both
                                    /\ IF ~end_reached
                                       THEN /\ filtered_data' = <<>>
                                            /\ shown' = sidebar
                                       ELSE /\ filtered_data' = FilterByDate(rows, sd, ed)
                                            /\ stop = "chart" =>
                                                  "chart" \in RenderFiltered(filtered_data')
                                            /\ shown' = sidebar \cup {"date_range"}
                                                  \cup RenderedUntil(filtered_data', stop)
            /\ UNCHANGED <<mode, flattenVars, preVars, selected_tokens>>

\* what the press of the button can come to over the selections of the
\* multiselect (the button is enabled: something is selected)
PressOutcomes ==
    UNION { LoadOutcomes(GoodKey, sel, TokenMapOf(FetchTokenList(GoodKey).list)) :
                sel \in Selections(TokenListOf(FetchTokenList(GoodKey).list)) \ {<<>>} }

\* the same with 'Select All' checked: the selection is the token list
PressAllOutcomes ==
    LoadOutcomes(GoodKey, TokenListOf(FetchTokenList(GoodKey).list),
                 TokenMapOf(FetchTokenList(GoodKey).list))

Init ==
    /\ mode = "main"
    /\ IdleFlatten
    /\ IdlePre
    /\ IdleMain

\* a rerun with the key field empty
RerunWithoutKey ==
    /\ mode = "main"
    /\ Main("", FALSE, "none", NotCalled, Stops)

\* a rerun with a key the API refuses
RerunWithWrongKey ==
    /\ mode = "main"
    /\ Main(BadKey, FALSE, "none", NotCalled, Stops)

\* a rerun with the valid key that a sidebar widget caused (the key typed,
\* the selection changed): the button returns False
RerunWithoutPress ==
    /\ mode = "main"
    /\ Main(GoodKey, FALSE, "none", NotCalled, Stops)

\* a rerun that a date input on the page caused: the key is the one of the
\* page
ChangeDates ==
    \E input \in {"start", "end"} :
        /\ date_inputs[input] # NoWidget
        /\ Main(api_key, FALSE, input, NotCalled, Stops)

\* 'Generate Dashboard' pressed with the multiselect's selection
PressGenerate ==
    \E load \in PressOutcomes :
        /\ mode = "main"
        /\ Main(GoodKey, TRUE, "none", load, Stops)

\* 'Generate Dashboard' pressed with 'Select All' checked
PressGenerateAll ==
    \E load \in PressAllOutcomes :
        /\ mode = "main"
        /\ Main(GoodKey, TRUE, "none", load, Stops)

Next ==
    \/ RerunWithoutKey
    \/ RerunWithWrongKey
    \/ RerunWithoutPress
    \/ ChangeDates
    \/ PressGenerate
    \/ PressGenerateAll

Spec == Init /\ [][Next]_vars

(***************************************************************************)
(* Properties of process_token_data.                                       *)
(***************************************************************************)
\* the number of rows the weeks before week i account for
AllocationsBefore(emission, i) ==
    SumSeq([k \in 1..(i - 1) |-> Len(emission[k].allocations)])

\* C6: process_token_data maps the emission JSON one-to-one to rows: one row
\* per allocation of each week, in order (a week without allocations gives
\* no row, the row count is the total number of allocations), each row with
\* the given token symbol, the week id and the start and end dates of its
\* enclosing week, and the allocation's unlockAmount and unlockValue as
\* amount and value_usd.
C6_OneRowPerAllocation ==
    (mode = "process_token_data" /\ token_data.tag = "ok") =>
        /\ Len(token_data.rows) = AllocationsBefore(emission_data, Len(emission_data) + 1)
        /\ \A i \in 1..Len(emission_data) :
             \A j \in 1..Len(emission_data[i].allocations) :
                LET row == token_data.rows[AllocationsBefore(emission_data, i) + j]
                    week == emission_data[i]
                IN  /\ row.token = token_symbol
                    /\ row.week = <<week.startDate[1],
                                    IsoWeek(week.startDate[1], week.startDate[2],
                                            week.startDate[3])>>
                    /\ row.start_date = Strptime(week.startDate)
                    /\ row.end_date = Strptime(week.endDate)
                    /\ row.amount = week.allocations[j].unlockAmount
                    /\ row.value_usd = week.allocations[j].unlockValue

\* a flattened list with a week of two allocations and a week of none
C6_Witness ==
    /\ mode = "process_token_data"
    /\ token_data.tag = "ok"
    /\ Len(token_data.rows) = 2
    /\ \E i, k \in 1..Len(emission_data) :
          Len(emission_data[i].allocations) = 2 /\ emission_data[k].allocations = <<>>

(***************************************************************************)
(* Properties of preprocess_data.                                          *)
(***************************************************************************)
Returned == mode = "preprocess_data" /\ final_data.tag = "ok"

RawKeyValue(w, t) == ValueSum(RowsOfKey(data, <<w, t>>))

RawWeekValue(w) == ValueSum(RowsOfWeek(data, w))

RawTokens(w) == {data[i].token : i \in {k \in 1..Len(data) : data[k].week = w}}

OutLabels(w) ==
    {final_data.rows[i].token :
        i \in {k \in 1..Len(final_data.rows) : final_data.rows[k].week = w}}

\* strictly below 5% of the week's total
ShareBelowFive(w, t) == 100 * RawKeyValue(w, t) < 5 * RawWeekValue(w)

\* C1 (as claimed): for every week the value_usd of the returned rows of the
\* week sums to the value_usd of the raw rows of the week.
C1_WeekSumPreserved ==
    Returned =>
        \A w \in Weeks(data) :
            ValueSum(RowsOfWeek(final_data.rows, w)) = RawWeekValue(w)

\* C2: a token whose weekly value is strictly below 5% of the week's total is
\* labelled OTHER in the output, any other token (exactly 5% included) keeps
\* its symbol; so every output row not labelled OTHER is a token of the week
\* with a share of at least 5%, carrying that token's weekly value.
C2_ThresholdRelabel ==
    Returned =>
        \A w \in Weeks(data) :
            /\ \A t \in RawTokens(w) :
                 IF ShareBelowFive(w, t)
                 THEN "OTHER" \in OutLabels(w) /\ t \notin OutLabels(w)
                 ELSE t \in OutLabels(w)
            /\ \A i \in 1..Len(final_data.rows) :
                 LET row == final_data.rows[i]
                 IN  (row.week = w /\ row.token # "OTHER") =>
                        /\ row.token \in RawTokens(w)
                        /\ 100 * RawKeyValue(w, row.token) >= 5 * RawWeekValue(w)
                        /\ row.value_usd = RawKeyValue(w, row.token)

\* a token at exactly 5% of its week (1 of 20) that keeps its symbol, and a
\* token below 5% of its week that is bucketed into OTHER
C2_Witness ==
    /\ Returned
    /\ \E w \in Weeks(data) : \E t \in RawTokens(w) :
          /\ 100 * RawKeyValue(w, t) = 5 * RawWeekValue(w)
          /\ RawWeekValue(w) > 0
          /\ t \in OutLabels(w)
    /\ \E w \in Weeks(data) : \E t \in RawTokens(w) :
          ShareBelowFive(w, t) /\ "OTHER" \in OutLabels(w)

\* C5 (as claimed): in every week the percentages of the (week, token) groups
\* sum to 100, a week whose total value_usd is zero included.
C5_PercentagesSumTo100 ==
    Returned =>
        \A w \in Weeks(data) :
            LET rows == RowsOfWeek(weekly_totals, w)
            IN  /\ \A i \in 1..Len(rows) : rows[i].percentage.kind = "number"
                /\ SumSeq([i \in 1..Len(rows) |-> rows[i].percentage.num])
                      = 100 * rows[1].total_week_value

\* C7 (as claimed): each (week, token label) pair is in at most one output row.
C7_OneRowPerWeekToken ==
    Returned =>
        \A i, j \in 1..Len(final_data.rows) :
            (final_data.rows[i].week = final_data.rows[j].week
             /\ final_data.rows[i].token = final_data.rows[j].token) => i = j

(***************************************************************************)
(* Properties of load_selected_data.                                       *)
(***************************************************************************)
\* load_selected_data was called and ran to its end
Loaded == mode = "load_selected_data" /\ load_result.tag \notin {"pending", "stopped"}

ResponseOf(sym) == EmissionResponse(TokenMapOf(TokenListing)[sym])

\* the API answers 200 with an empty list of weeks
HasNoWeeks(sym) == ResponseOf(sym).status_code = 200 /\ ResponseOf(sym).data = <<>>

\* the API answers 200 with weeks, and every week's dates parse
YieldsData(sym) ==
    /\ ResponseOf(sym).status_code = 200
    /\ ResponseOf(sym).data # <<>>
    /\ \A i \in 1..Len(ResponseOf(sym).data) :
          /\ StrptimeOk(ResponseOf(sym).data[i].startDate)
          /\ StrptimeOk(ResponseOf(sym).data[i].endDate)

\* C4: a token whose emission data is an empty list of weeks adds no rows and
\* does not change the outcome of the load: the load gives what it gives for
\* the selection without such tokens, and no row of the result carries the
\* token's symbol.
C4_EmptyTokenSkipped ==
    Loaded =>
        LET others == SelectSeq(selected_tokens, LAMBDA t : ~HasNoWeeks(t))
        IN  /\ load_result = LoadSelectedData(api_key, others, TokenMapOf(TokenListing))
            /\ \A k \in 1..Len(selected_tokens) :
                  HasNoWeeks(selected_tokens[k]) =>
                      \A i \in 1..Len(load_result.rows) :
                          load_result.rows[i].token # selected_tokens[k]

\* a load of a token without weeks followed by a token with data
C4_Witness ==
    /\ Loaded
    /\ Len(selected_tokens) = 2
    /\ HasNoWeeks(selected_tokens[1])
    /\ YieldsData(selected_tokens[2])
    /\ load_result.tag = "ok"
    /\ load_result.rows # <<>>

\* C8 (as claimed): a load never aborts; it returns None exactly when no
\* selected token yielded data, and otherwise the bucketed table of the
\* tokens that did, in the order selected.
C8_LoadNeverAborts ==
    Loaded =>
        LET yielding == SelectSeq(selected_tokens, YieldsData)
            frames == [i \in 1..Len(yielding) |->
                          ProcessTokenData(ResponseOf(yielding[i]).data, yielding[i]).rows]
        IN  /\ load_result.tag \in {"ok", "None"}
            /\ load_result.tag = "None" <=> yielding = <<>>
            /\ yielding # <<>> => load_result.rows = PreprocessData(Concat(frames)).rows

(***************************************************************************)
(* Properties of main.                                                     *)
(***************************************************************************)
DayNumber(d) == d.year * 10000 + d.month * 100 + d.day

Selected(row) ==
    /\ DayNumber(DateOf(row.start_date)) >= DayNumber(start_date)
    /\ DayNumber(DateOf(row.end_date)) <= DayNumber(end_date)

DateInputsShown == mode = "main" /\ "date_range" \in shown

\* C3 (as claimed): when the data is loaded and the chosen dates select no
\* row (a start after the end included), the rerun shows the warning and ends
\* without an error, with neither the metrics nor the chart.
C3_EmptyRangeWarns ==
    (DateInputsShown /\ \A i \in 1..Len(session.rows) : ~Selected(session.rows[i])) =>
        /\ "no_data_warning" \in shown
        /\ "metrics" \notin shown
        /\ "chart" \notin shown
        /\ raised = ""

\* C3 (amended): the same for every rerun that Streamlit does not stop
\* before line 199: a rerun stopped there has rendered the date inputs and
\* no warning.
C3_EmptyRangeWarnsUnlessStopped ==
    (/\ DateInputsShown
     /\ halted = "none"
     /\ \A i \in 1..Len(session.rows) : ~Selected(session.rows[i])) =>
        /\ "no_data_warning" \in shown
        /\ "metrics" \notin shown
        /\ "chart" \notin shown
        /\ raised = ""

\* the warning after a start date chosen later than the end date
C3_Witness ==
    /\ DateInputsShown
    /\ halted = "none"
    /\ DayNumber(start_date) > DayNumber(end_date)
    /\ "no_data_warning" \in shown

\* C10: the filter keeps exactly the rows that start on or after the chosen
\* start date and end on or before the chosen end date, in order; with the
\* default choices (the earliest start, the latest end) it keeps every row.
C10_FilterKeepsExactlyInRange ==
    DateInputsShown =>
        /\ filtered_data = SelectSeq(session.rows, Selected)
        /\ (start_date = MinStartDate(session.rows) /\ end_date = MaxEndDate(session.rows))
              => filtered_data = session.rows

\* a kept row beside a dropped row whose period is only partly in the range
C10_Witness ==
    /\ DateInputsShown
    /\ filtered_data # <<>>
    /\ \E i \in 1..Len(session.rows) :
          /\ DayNumber(DateOf(session.rows[i].start_date)) < DayNumber(start_date)
          /\ DayNumber(DateOf(session.rows[i].end_date)) > DayNumber(start_date)
          /\ DayNumber(DateOf(session.rows[i].end_date)) <= DayNumber(end_date)
          /\ \A j \in 1..Len(filtered_data) : filtered_data[j] # session.rows[i]

Dashboard == {"date_range", "no_data_warning", "metrics", "chart"}

\* C9: in every rerun the dashboard body is rendered only with a non-empty
\* key and a table in the session; the session's data changes only in a
\* rerun where the button was pressed and the load returned, and such a rerun
\* stores the load's result: a load that returns None replaces a table by
\* None and the body is not rendered.
C9_SessionFollowsLoad ==
    [][ /\ (shown' \cap Dashboard # {}) => (api_key' # "" /\ session'.state = "table")
        /\ session' # session => (pressed' /\ load_result'.tag \in {"ok", "None"})
        /\ (pressed' /\ load_result'.tag = "ok") =>
              session' = [state |-> "table", rows |-> load_result'.rows]
        /\ (pressed' /\ load_result'.tag = "None") =>
              (session'.state = "None" /\ shown' \cap Dashboard = {}) ]_vars

\* a rerun that began with a table and whose load returned None
C9_Witness ==
    /\ mode = "main"
    /\ pressed
    /\ halted = "none"
    /\ had_table
    /\ load_result.tag = "None"
    /\ session.state = "None"
    /\ shown \cap Dashboard = {}

====
